---- MODULE Spec2Model ----
(***************************************************************************)
(* oscbeat: main() of src/main.py.  A madmom beat tracker whose output    *)
(* chain is [beat_processor, outproc]; outproc relays every beat of a     *)
(* chunk as three OSC messages over a SimpleUDPClient.                     *)
(*                                                                         *)
(* The model follows one run of main(): the client is constructed, the    *)
(* processing function (args.func) hands the input to the processor chunk *)
(* by chunk, beat_processor decodes a chunk beat by beat and then outproc  *)
(* sends its messages one send_message call at a time.  A send may raise, and the   *)
(* process may be interrupted between any two sends; main() installs no   *)
(* handler for either.                                                     *)
(***************************************************************************)
EXTENDS Integers, Sequences, FiniteSets, TLC

\* ---------------------------------------------------------------- bounds
MaxChunks == 2      \* chunks of one input
MaxEvents == 3      \* beat events of one run
MaxTime   == 2      \* beat timestamps are 1..MaxTime

\* ------------------------------------------------------ program constants
TapHigh == 255
TapLow  == 0

Times    == 1..MaxTime
Tempos   == {120, 125}
Counters == {0, 1}

\* A beat event as the decoder knows it: the beat instant and the tempo and
\* counter the decoder held when it emitted the beat.
BeatEvents == [timestamp : Times, tempo : Tempos, counter : Counters]

VARIABLES
    pc,             \* position of main()
    osc_client,     \* "none" until SimpleUDPClient(...) returned, then "open"
    tempo,          \* beat_processor.tempo
    counter,        \* beat_processor.counter
    beats,          \* the array the callback was last called with
    pending,        \* messages the running callback has still to send
    sent,           \* messages handed to the network so far, in order
    nChunks,        \* number of chunks of the input
    chunks,         \* chunks decoded so far
    events,         \* history: beat events the decoder produced, in order
    constructions,  \* history: SimpleUDPClient constructions
    failedSends,    \* history: send_message calls that raised
    sentAtEntry     \* history: Len(sent) when the current chunk began

vars == <<pc, osc_client, tempo, counter, beats, pending, sent, nChunks,
          chunks, events, constructions, failedSends, sentAtEntry>>

Running     == {"ready", "decoding", "outproc"}
ErrorStates == {"config_error", "send_error", "interrupted"}
PcValues    == {"start", "done"} \union Running \union ErrorStates

\* ------------------------------------------------------------- helpers
RECURSIVE Flatten(_)
Flatten(ss) == IF ss = <<>> THEN <<>> ELSE Head(ss) \o Flatten(Tail(ss))

Last(s) == s[Len(s)]

\* json.dumps of the dict literal: the members in insertion order.
JsonDumps(msg) ==
    <<<<"beat", msg.beat>>, <<"tempo", msg.tempo>>, <<"counter", msg.counter>>>>

Message(address, value) == [address |-> address, value |-> value]

\* Variant of the loop body with the two tap calls exchanged.
EncodeTapSwapped(beat, tp, ct) ==
    <<Message("/tempo/beat", JsonDumps([beat |-> beat, tempo |-> tp, counter |-> ct])),
      Message("/tempo/tap", TapLow),
      Message("/tempo/tap", TapHigh)>>

\* The loop body: the three send_message calls for one beat.
Encode(beat, tp, ct) ==
    <<Message("/tempo/beat", JsonDumps([beat |-> beat, tempo |-> tp, counter |-> ct])),
      Message("/tempo/tap", TapHigh),
      Message("/tempo/tap", TapLow)>>

\* Variant of outproc that walks the array from its end.
OutprocReversed(bs, tp, ct) ==
    IF Len(bs) > 0
    THEN Flatten([i \in 1..Len(bs) |-> Encode(bs[Len(bs) + 1 - i], tp, ct)])
    ELSE <<>>

\* Variant of outproc whose tap calls sit after the loop, outside the test.
OutprocDedented(bs, tp, ct) ==
    [i \in 1..Len(bs) |->
        Message("/tempo/beat", JsonDumps([beat |-> bs[i], tempo |-> tp, counter |-> ct]))]
    \o <<Message("/tempo/tap", TapHigh), Message("/tempo/tap", TapLow)>>

\* Variant of outproc whose loop stops one beat early.
OutprocSkipLast(bs, tp, ct) ==
    IF Len(bs) > 0
    THEN Flatten([i \in 1..(Len(bs) - 1) |-> Encode(bs[i], tp, ct)])
    ELSE <<>>

\* outproc(beats): every send_message call of one invocation, in call order.
\* tempo and counter are read from beat_processor inside the loop, after
\* beat_processor has processed the whole chunk.
Outproc(bs, tp, ct) ==
    IF Len(bs) > 0
    THEN Flatten([i \in 1..Len(bs) |-> Encode(bs[i], tp, ct)])
    ELSE <<>>

\* ---------------------------------------------------------------- Init
Init ==
    /\ pc = "start"
    /\ osc_client = "none"
    /\ tempo \in Tempos
    /\ counter \in Counters
    /\ beats = <<>>
    /\ pending = <<>>
    /\ sent = <<>>
    /\ nChunks \in 0..MaxChunks
    /\ chunks = 0
    /\ events = <<>>
    /\ constructions = 0
    /\ failedSends = 0
    /\ sentAtEntry = 0

\* -------------------------------------------------------------- actions
\* Variant of the construction whose exception is swallowed.
ConstructClientSwallowed ==
    /\ pc = "start"
    /\ constructions' = constructions + 1
    /\ \E ok \in BOOLEAN :
         /\ osc_client' = IF ok THEN "open" ELSE osc_client
         /\ pc' = "ready"
    /\ UNCHANGED <<tempo, counter, beats, pending, sent, nChunks, chunks,
                   events, failedSends, sentAtEntry>>

\* osc_client = udp_client.SimpleUDPClient(args.ip, args.port): returns a
\* client or raises; an exception leaves main().
ConstructClient ==
    /\ pc = "start"
    /\ constructions' = constructions + 1
    /\ \E ok \in BOOLEAN :
         IF ok THEN /\ osc_client' = "open"
                    /\ pc' = "ready"
               ELSE /\ osc_client' = osc_client
                    /\ pc' = "config_error"
    /\ UNCHANGED <<tempo, counter, beats, pending, sent, nChunks, chunks,
                   events, failedSends, sentAtEntry>>

\* args.func hands the next chunk of the input to the processor, whose output
\* chain starts with beat_processor.
BeginChunk ==
    /\ pc = "ready"
    /\ chunks < nChunks
    /\ pc' = "decoding"
    /\ chunks' = chunks + 1
    /\ beats' = <<>>
    /\ sentAtEntry' = Len(sent)
    /\ tempo' \in Tempos
    /\ counter' \in Counters
    /\ UNCHANGED <<osc_client, pending, sent, nChunks, events, constructions,
                   failedSends>>

\* beat_processor finds the next beat of the chunk: the beat instant joins the
\* array it will return, and its tempo and counter are those of this beat.
EmitBeat ==
    /\ pc = "decoding"
    /\ Len(events) < MaxEvents
    /\ \E e \in BeatEvents :
         /\ e.timestamp >= (IF events = <<>> THEN 1 ELSE Last(events).timestamp)
         /\ events' = Append(events, e)
         /\ beats' = Append(beats, e.timestamp)
         /\ tempo' = e.tempo
         /\ counter' = e.counter
    /\ UNCHANGED <<pc, osc_client, pending, sent, nChunks, chunks,
                   constructions, failedSends, sentAtEntry>>

\* beat_processor returns and the chain calls outproc(beats).
CallOutproc ==
    /\ pc = "decoding"
    /\ pending' = Outproc(beats, tempo, counter)
    /\ pc' = IF pending' = <<>> THEN "ready" ELSE "outproc"
    /\ UNCHANGED <<osc_client, tempo, counter, beats, sent, nChunks, chunks,
                   events, constructions, failedSends, sentAtEntry>>

\* One osc_client.send_message call of the running callback.  It returns, or
\* it raises and the exception leaves outproc and main().
Send ==
    /\ pc = "outproc"
    /\ pending # <<>>
    /\ \E ok \in BOOLEAN :
         IF ok THEN /\ sent' = Append(sent, Head(pending))
                    /\ pending' = Tail(pending)
                    /\ pc' = IF pending' = <<>> THEN "ready" ELSE "outproc"
                    /\ failedSends' = failedSends
               ELSE /\ sent' = sent
                    /\ pending' = <<>>
                    /\ pc' = "send_error"
                    /\ failedSends' = failedSends + 1
    /\ UNCHANGED <<osc_client, tempo, counter, beats, nChunks, chunks, events,
                   constructions, sentAtEntry>>

\* The input is exhausted: args.func returns and main() ends.
EndOfInput ==
    /\ pc = "ready"
    /\ chunks = nChunks
    /\ pc' = "done"
    /\ UNCHANGED <<osc_client, tempo, counter, beats, pending, sent, nChunks,
                   chunks, events, constructions, failedSends, sentAtEntry>>

\* External interruption (KeyboardInterrupt): raised wherever main() is.
Interrupt ==
    /\ pc \in Running
    /\ pc' = "interrupted"
    /\ pending' = <<>>
    /\ UNCHANGED <<osc_client, tempo, counter, beats, sent, nChunks, chunks,
                   events, constructions, failedSends, sentAtEntry>>

Next ==
    \/ ConstructClient
    \/ BeginChunk
    \/ EmitBeat
    \/ CallOutproc
    \/ Send
    \/ EndOfInput
    \/ Interrupt

Spec == Init /\ [][Next]_vars

\* main() is one sequential thread: a step that can be taken is taken.  The
\* interruption comes from outside and has no fairness.
FairSpec ==
    /\ Spec
    /\ WF_vars(ConstructClient)
    /\ WF_vars(BeginChunk)
    /\ WF_vars(CallOutproc)
    /\ WF_vars(Send)
    /\ WF_vars(EndOfInput)

TypeOK ==
    /\ pc \in PcValues
    /\ osc_client \in {"none", "open"}
    /\ tempo \in Tempos
    /\ counter \in Counters
    /\ chunks \in 0..nChunks
    /\ Len(events) <= MaxEvents

\* =============================================================== claims
\* The beat event the k-th sent message belongs to, and its place in the triple.
EventOf(k) == (k + 2) \div 3
PlaceOf(k) == ((k - 1) % 3) + 1

PayloadOf(e) ==
    JsonDumps([beat |-> e.timestamp, tempo |-> e.tempo, counter |-> e.counter])

Payloads ==
    {JsonDumps([beat |-> t, tempo |-> b, counter |-> c]) :
        t \in Times, b \in Tempos, c \in Counters}

\* C1: every beat handed to outproc gives three messages in the order
\* "/tempo/beat" with the data payload, "/tempo/tap" 255, "/tempo/tap" 0; once
\* every callback invocation so far has run to completion the number of sent
\* messages is three times the number of beat events received; every
\* "/tempo/tap" value is 0 or 255.
C1_ThreeMessagesPerBeat ==
    /\ \A k \in 1..Len(sent) :
         /\ PlaceOf(k) = 1 =>
              (sent[k].address = "/tempo/beat" /\ sent[k].value \in Payloads)
         /\ PlaceOf(k) = 2 =>
              (sent[k].address = "/tempo/tap" /\ sent[k].value = 255)
         /\ PlaceOf(k) = 3 =>
              (sent[k].address = "/tempo/tap" /\ sent[k].value = 0)
         /\ sent[k].address = "/tempo/tap" => sent[k].value \in {0, 255}
    /\ pc \in {"ready", "done"} => Len(sent) = 3 * Len(events)

C1_Witness ==
    /\ pc = "ready"
    /\ chunks = 2
    /\ Len(events) = 3
    /\ Len(sent) = 9

\* C2: the sent stream keeps the decoder's order: the k-th message belongs to
\* the beat event number (k+2) div 3 of the decoder's output, within a chunk and
\* across callback invocations, so no message of a later beat precedes a
\* message of an earlier one.
C2_DecodeOrderPreserved ==
    \A k \in 1..Len(sent) :
        /\ EventOf(k) <= Len(events)
        /\ (sent[k].address = "/tempo/beat") = (PlaceOf(k) = 1)
        /\ sent[k].address = "/tempo/beat" =>
             sent[k].value[1] = <<"beat", events[EventOf(k)].timestamp>>

C2_Witness ==
    /\ chunks = 2
    /\ Len(beats) = 2
    /\ Len(events) = 3
    /\ Len(sent) = 9
    /\ events[1].timestamp < events[2].timestamp
    /\ events[2].timestamp = events[3].timestamp

\* C3: when the run is interrupted, no beat event has a strict non-empty
\* subset of its three messages on the wire.
C3_NoPartialTriple ==
    pc = "interrupted" => Len(sent) % 3 = 0

\* C4: a failed send does not halt the relay: when the run has ended, every
\* message of every beat event other than the failed sends has been sent.
C4_FailedSendDoesNotHalt ==
    (failedSends > 0 /\ pc \notin Running) =>
        (pc = "done" /\ Len(sent) + failedSends = 3 * Len(events))

\* C6: the "/tempo/beat" message of a beat event carries that event's own
\* timestamp, tempo and counter.
C6_PayloadIsEventsOwn ==
    \A i \in 1..Len(events) :
        3 * i - 2 <= Len(sent) => sent[3 * i - 2].value = PayloadOf(events[i])

\* C7: encoding the same beat event at two points of a run gives the same
\* three messages.
C7_EncodingIdempotent ==
    \A i, j \in 1..Len(events) :
        (3 * i <= Len(sent) /\ 3 * j <= Len(sent) /\ events[i] = events[j]) =>
            SubSeq(sent, 3 * i - 2, 3 * i) = SubSeq(sent, 3 * j - 2, 3 * j)

\* C8: a callback invocation with an empty beat array sends nothing and raises
\* nothing; messages are only ever sent for beat events (never more than three
\* per beat event received).
C8_EmptyChunkIsSilent ==
    /\ (chunks > 0 /\ beats = <<>>) =>
          /\ pending = <<>>
          /\ Len(sent) = sentAtEntry
          /\ pc # "send_error"
    /\ Len(sent) <= 3 * Len(events)
    /\ events = <<>> => sent = <<>>

C8_Witness ==
    /\ chunks = 2
    /\ beats = <<>>
    /\ Len(events) > 0
    /\ Len(sent) = 3 * Len(events)
    /\ pc = "done"

\* C9: a run whose endpoint construction fails decodes no chunk and sends no
\* message; the endpoint is constructed exactly once per run, and before any
\* chunk is processed.
C9_ConfigErrorFailsFast ==
    /\ pc = "config_error" =>
          (chunks = 0 /\ sent = <<>> /\ events = <<>> /\ osc_client = "none")
    /\ pc = "start" => (constructions = 0 /\ chunks = 0)
    /\ pc # "start" => constructions = 1
    /\ (chunks > 0 \/ sent # <<>> \/ pc \in Running \/ pc = "done") =>
          osc_client = "open"

C9_Witness ==
    /\ pc = "config_error"
    /\ nChunks > 0
    /\ constructions = 1

\* C10: a run over a finite input in which nothing fails reaches its terminal
\* state; there every chunk has been decoded and every beat event has been
\* relayed exactly once (three messages per event, in the decoder's order); no
\* message is sent after the terminal state.
C10_FiniteRunTerminates ==
    /\ [](pc = "done" =>
            /\ chunks = nChunks
            /\ pending = <<>>
            /\ Len(sent) = 3 * Len(events)
            /\ \A i \in 1..Len(events) :
                 sent[3 * i - 2].value[1] = <<"beat", events[i].timestamp>>)
    /\ [][pc = "done" => sent' = sent]_vars
    /\ <>(pc = "done" \/ pc \in ErrorStates)

C10_Witness ==
    /\ pc = "done"
    /\ nChunks = 1
    /\ Len(events) = 3
    /\ Len(sent) = 9

====
